---- MODULE Spec2Model ----
(***************************************************************************)
(* The reconciliation core of the COS registration server charm:           *)
(* src/src/charm.py and the relation libraries under src/lib/charms.       *)
(*                                                                         *)
(* Every handler is one action.  A handler is written as a function from   *)
(* a record of the unit's mutable state (the fields the handler can        *)
(* assign) to the record after it; the record also carries the log of what *)
(* the handler did (calls, emissions, the exception that escaped).  An     *)
(* exception leaves the assignments made before it in place, as in the     *)
(* in-process harness of src/tests/unit/test_charm.py.                     *)
(***************************************************************************)
EXTENDS Naturals, Sequences, FiniteSets, TLC

(***************************************************************************)
(* Bounds                                                                  *)
(***************************************************************************)
\* Number of relation instances that may exist for one relation name.
MaxRel == 2

Relations == 1..MaxRel

(***************************************************************************)
(* Data                                                                    *)
(***************************************************************************)
Categories == {"dashboards", "auth", "loki", "prometheus"}

\* A mapping as Python holds it: the sequence of its (key, value) pairs in
\* insertion order.  The empty mapping and the empty list are both <<>>.
K1 == << <<"0", "ssh-rsa AAA">> >>
K2 == << <<"0", "ssh-rsa AAA">>, <<"1", "ssh-rsa BBB">> >>
AuthData == { <<>>, K1, K2 }

\* m[key] for a mapping m held as its sequence of pairs.
AsDict(m) ==
    [k \in {m[i][1] : i \in DOMAIN m} |-> m[CHOOSE i \in DOMAIN m : m[i][1] = k][2]]

\* Entries of applications/grafana/dashboards/: a mapping with a uid and a
\* dashboard document (the document is held as a record).
E1 == << <<"uid", "d1">>, <<"dashboard", [title |-> "one", uid |-> ""]>> >>
E2 == << <<"uid", "d2">>, <<"dashboard", [title |-> "two", uid |-> "old"]>> >>
DashData == { <<>>, <<E1>>, <<E1, E2>> }

\* Entries of applications/<app>/alert_rules/: a uid (a string, held as the
\* sequence of its characters) and the rules text.
F1 == [uid |-> <<"a", "/", "b">>, rules |-> "rules-1"]
F2 == [uid |-> <<"c">>, rules |-> "rules-2"]
F3 == [uid |-> <<"a", "_", "b">>, rules |-> "rules-3"]
RuleData == { <<>>, <<F1>>, <<F1, F2>> }

\* What requests.get(database_url) meets: no connection, a non-2xx answer whose
\* body is the server's error document, or a 2xx answer with the data.
ConnError == [kind |-> "conn_error", body |-> <<>>]
HttpError == [kind |-> "http_error", body |-> << <<"detail", "Not found.">> >>]
Http200(d) == [kind |-> "ok", body |-> d]

\* What a _get_*_from_db call returns: the decoded JSON body, or None.
Unavailable == [ok |-> FALSE, data |-> <<>>]
Ok(d) == [ok |-> TRUE, data |-> d]

\* try: response = requests.get(url); response.raise_for_status();
\*      return response.json()
\* except requests.exceptions.RequestException: return None
_get_grafana_dashboards_from_db(resp) ==
    IF resp.kind = "ok" THEN Ok(resp.body) ELSE Unavailable

\* Variant: response.raise_for_status() left out, so the body of a non-2xx
\* answer is returned as if it were the data.
get_auth_devices_keys_unchecked(resp) ==
    IF resp.kind \in {"ok", "http_error"} THEN Ok(resp.body) ELSE Unavailable

_get_auth_devices_keys_from_db(resp) ==
    IF resp.kind = "ok" THEN Ok(resp.body) ELSE Unavailable

_get_alert_rules_from_db(resp) ==
    IF resp.kind = "ok" THEN Ok(resp.body) ELSE Unavailable

\* Python truthiness of a fetched value: None, [] and {} are falsy.
Truthy(f) == f.ok /\ f.data # <<>>

(***************************************************************************)
(* Fingerprints.  A digest is modelled by the byte string it digests       *)
(* (md5 taken as collision free on the values of the model); "" is <<>>.   *)
(***************************************************************************)
EmptyHash == <<>>

\* repr(lst): keeps the order in which a mapping's keys were inserted.
Repr(v) == <<"repr", v>>

\* json.dumps(v, sort_keys=True) of a list of mappings: list order kept, the
\* pairs of each entry put in the order of their keys, which leaves of an
\* entry exactly its key -> value function.
JsonSorted(v) == <<"json", [i \in DOMAIN v |-> AsDict(v[i])]>>

md5_dict(d) == <<"md5", JsonSorted(d)>>

md5_list(l) == <<"md5", Repr(l)>>


(***************************************************************************)
(* BlackboxProbesProvider (src/lib/charms/blackbox_k8s): the constructor.  *)
(* A name is the sequence of the pieces it is concatenated from.           *)
(***************************************************************************)
\* "juju_{}_".format(topology.identifier)
module_name_prefix == <<"juju_testmodel_cos-registration-server_">>

http_2xx == <<"http_2xx">>
tcp_connect == <<"tcp_connect">>
icmp == <<"icmp">>

\* job["params"]["module"]: missing, a list of names, or a string.
Missing == <<"missing">>
ListOf(names) == <<"list", names>>
Str(name) == <<"str", name>>

\* Probes as the constructor's docstring shows them (params: module: [name]),
\* a probe of the shape _prefix_probes iterates over
\* (params: params: module: [{module: [name]}]) with an empty job name, and a
\* probe that names a module the charm does not define.
J1 == [job_name |-> <<"probe">>,
       params |-> [module |-> ListOf(<<http_2xx>>), params |-> <<>>]]
J2 == [job_name |-> <<>>,
       params |-> [module |-> Missing, params |-> << [module |-> <<http_2xx>>] >>]]
J3 == [job_name |-> <<"ping">>,
       params |-> [module |-> ListOf(<<icmp>>), params |-> <<>>]]

ProbesIn == { <<>>, <<J1>>, <<J2>>, <<J1, J3>> }

\* The modules argument: None, or a mapping of module name to definition.
M1 == << <<http_2xx, "http">> >>
M2 == << <<http_2xx, "http">>, <<tcp_connect, "tcp">> >>
ModulesIn == { <<>>, M1, M2 }

\* The keys of a mapping held as its sequence of pairs.
Keys(m) == {m[i][1] : i \in DOMAIN m}

\* The module names of job["params"].get("params", {}).get("module", []), in
\* the order the two loops of _prefix_probes visit them.
RECURSIVE ParamModules(_)
ParamModules(job_params) ==
    IF job_params = <<>> THEN <<>>
    ELSE Head(job_params).module \o ParamModules(Tail(job_params))

\* _prefix_probes for one job: the job name is prefixed; every visited module
\* that is a key of self._modules assigns job["params"]["module"], so the last
\* one stays.
PrefixJob(job, modules, prefix) ==
    LET job_name == job.job_name
        found == SelectSeq(ParamModules(job.params.params),
                           LAMBDA module : module \in Keys(modules))
        named == [job EXCEPT !.job_name = IF job_name # <<>>
                                          THEN prefix \o <<"_">> \o job_name
                                          ELSE prefix]
    IN IF found = <<>> THEN named
       ELSE [named EXCEPT !.params.module =
                              Str(prefix \o <<"_">> \o found[Len(found)])]

_prefix_probes(probes, modules, prefix) ==
    [i \in DOMAIN probes |-> PrefixJob(probes[i], modules, prefix)]

\* _prefix_modules: {f"{prefix}{key}": value for key, value in items}
_prefix_modules(modules, prefix) ==
    [i \in DOMAIN modules |-> <<prefix \o modules[i][1], modules[i][2]>>]

\* BlackboxProbesProvider.__init__(charm, probes, modules): the arguments as
\* given, and self._probes and self._modules after the two prefixing calls.
BlackboxProbesProvider__init__(probes, modules) ==
    [given |-> [probes |-> probes, modules |-> modules],
     probes |-> _prefix_probes(probes, modules, module_name_prefix),
     modules |-> _prefix_modules(modules, module_name_prefix)]

\* The provider of a charm that passes one probe and its module.
DefaultBlackbox == BlackboxProbesProvider__init__(<<J1>>, M1)

(***************************************************************************)
(* State                                                                   *)
(***************************************************************************)
VARIABLES
    leader,        \* self.unit.is_leader()
    can_connect,   \* self.container.can_connect()
    unit_status,   \* self.unit.status
    stored,        \* CosRegistrationServerCharm._stored: password and fingerprints
    auth_keys,     \* AuthDevicesKeysProvider._stored.auth_devices_keys
    provider,      \* the provider library the unit's relations belong to
    relations,     \* ids of the active relations of the provider's relation name
    bucket,        \* relation id -> this application's bucket in that relation
    dk_keys,       \* DevicesKeysProvider._stored.devices_pub_keys
    dashboards,    \* non-builtin dashboards of grafana_dashboard_provider_devices
    rules_dir,     \* the loki and prometheus alert rule directories
    workload,      \* the workload container, the ingress relation and its bucket
    fp,            \* the last two values fingerprinted side by side, and their digests
    consumer,      \* _stored of AuthDevicesKeysConsumer and of DevicesKeysConsumer
    blackbox,      \* BlackboxProbesProvider: the constructor's arguments, _probes, _modules
    remote,        \* relation id -> the remote application's bucket in that relation
    last           \* log of the most recent step

vars == <<leader, can_connect, unit_status, stored, auth_keys, provider,
          relations, bucket, dk_keys, dashboards, rules_dir, workload, fp, consumer,
          blackbox, remote, last>>

\* An entry of a relation bucket that was never written.
Absent == <<>>

\* The keys the providers of this repository write in an application bucket.
BucketKeys == {"auth_devices_keys", "devices_pub_keys",
               "scrape_metadata", "scrape_probes", "scrape_modules"}

EmptyBucket == [k \in BucketKeys |-> Absent]

\* What the log keeps of a fetch: whether the server answered with data,
\* and the data.  A category the handler did not reach is "skipped".
NotFetched == [st |-> "skipped", data |-> <<>>]
Fetched(resp) == IF resp.kind = "ok" THEN [st |-> "ok", data |-> resp.body]
                                     ELSE [st |-> "failed", data |-> <<>>]

\* The results of an action that has not set any.
NoResult == [status |-> "none", password |-> ""]

\* create_super_user.bash was not run: no password given to it, no outcome.
NoSuperUser == [password |-> "", outcome |-> "none"]

\* The peer bucket of a relation-changed event that no consumer handled.
NoEvent == [raises |-> FALSE, value |-> <<>>]

\* The log of one step: what was fetched per category, which change branches
\* were taken, the calls made, whether an exception left the handler and from
\* which category's update; probes and modules are what the requirer's probes()
\* and modules() returned; deleted counts the stored device keys deleted and
\* file_read says how the read of the device key file ended; repeat[c] says that the step and the step before
\* it are update-status ticks that fetched the same data for c.
BlankLog(op) ==
    [op |-> op,
     err |-> FALSE,
     err_in |-> "none",
     repeat |-> [c \in Categories |-> FALSE],
     fetched |-> [c \in Categories |-> NotFetched],
     changed |-> [c \in Categories |-> FALSE],
     replaced |-> [c \in Categories |-> FALSE],
     notif |-> [c \in Categories |-> 0],
     fanout |-> 0,
     write_calls |-> [r \in Relations |-> 0],
     write_failed |-> 0,
     calls |-> <<>>,
     setup_failed |-> FALSE,
     result |-> NoResult,
     super_user |-> NoSuperUser,
     probes |-> <<>>,
     modules |-> <<>>,
     peer |-> NoEvent,
     file_read |-> "none",
     deleted |-> 0,
     emitted |-> 0,
     dash_removes |-> 0,
     dash_removed |-> 0,
     dash_adds |-> 0]

\* No two values have been fingerprinted side by side.
NoDigests == [cat |-> "none", shape |-> "none", a |-> <<>>, b |-> <<>>, ha |-> EmptyHash, hb |-> EmptyHash]

\* set_default(auth_devices_keys=[]) and set_default(devices_pub_keys={}) of
\* the two consumers.
NoConsumerData == [auth_devices_keys |-> <<>>, devices_pub_keys |-> <<>>]

\* The services of an empty Pebble plan: plan.to_dict().get("services", {}).
NoServices == {}

\* Before the first pebble-ready: the install script has not run, the plan is
\* empty, the service is not running, Traefik has not told an external host,
\* there is no ingress relation and nothing in its bucket.
NoWorkload ==
    [secret_key |-> FALSE, plan |-> NoServices, running |-> FALSE,
     external_host |-> "", ingress |-> FALSE, config |-> Absent]

\* The mutable state a handler starts from.
Start(op) ==
    [stored |-> stored, auth_keys |-> auth_keys, bucket |-> bucket,
     dk_keys |-> dk_keys, dashboards |-> dashboards, rules_dir |-> rules_dir,
     workload |-> workload, unit_status |-> unit_status, consumer |-> consumer,
     blackbox |-> blackbox, remote |-> remote, log |-> BlankLog(op)]

\* The variables after a handler that ended in state s.
Commit(s) ==
    /\ stored' = s.stored
    /\ auth_keys' = s.auth_keys
    /\ bucket' = s.bucket
    /\ dk_keys' = s.dk_keys
    /\ provider' = provider
    /\ fp' = fp
    /\ dashboards' = s.dashboards
    /\ rules_dir' = s.rules_dir
    /\ workload' = s.workload
    /\ consumer' = s.consumer
    /\ blackbox' = s.blackbox
    /\ remote' = s.remote
    /\ unit_status' = s.unit_status
    /\ last' = s.log

\* An exception raised while category c is updated leaves the handler.
Raise(s, c) == [s EXCEPT !.log.err = TRUE, !.log.err_in = c]

RECURSIVE SortedSeq(_)
SortedSeq(S) ==
    IF S = {} THEN <<>>
    ELSE LET m == CHOOSE x \in S : \A y \in S : x <= y
         IN <<m>> \o SortedSeq(S \ {m})

(***************************************************************************)
(* AuthDevicesKeysProvider (src/lib/charms/auth_devices_keys_k8s)          *)
(***************************************************************************)
\* json.dump(stored_data): called with one argument, so Python raises
\* TypeError (the required 'fp' is missing) before anything is serialized.
json_dump(obj) == [raised |-> TRUE, value |-> Absent]

\* relation.data[app]["auth_devices_keys"] = json.dump(stored_data): the right
\* hand side is evaluated first; when it raises the bucket is not assigned.
_update_auth_devices_keys_on_relation(s, r) ==
    LET d == json_dump(s.auth_keys)
        s1 == [s EXCEPT !.log.write_calls[r] = @ + 1]
    IN IF d.raised
       THEN Raise([s1 EXCEPT !.log.write_failed = @ + 1], "auth")
       ELSE [s1 EXCEPT !.bucket[r]["auth_devices_keys"] = d.value]

\* for ssh_keys_relation in model.relations[name]: ...; an exception ends the loop.
RECURSIVE FanOutAuth(_, _)
FanOutAuth(s, rels) ==
    IF rels = <<>> \/ s.log.err THEN s
    ELSE FanOutAuth(_update_auth_devices_keys_on_relation(s, Head(rels)), Tail(rels))

\* Variant: the stored keys are not cleared; the fetched pairs are added to
\* the pairs already stored under other ids.
update_all_auth_devices_keys_merged(s, env, keys) ==
    LET s0 == [s EXCEPT !.log.fanout = @ + 1]
        kept == SelectSeq(s.auth_keys,
                          LAMBDA p : \A i \in DOMAIN keys : keys[i][1] # p[1])
    IN IF keys # <<>>
       THEN LET s1 == [s0 EXCEPT !.auth_keys = kept \o keys, !.log.replaced["auth"] = TRUE]
            IN IF env.leader THEN FanOutAuth(s1, SortedSeq(env.relations)) ELSE s1
       ELSE s0

\* update_all_auth_devices_keys_from_db(auth_devices_keys); env is the unit's
\* leadership and the active relations at the time of the call.
update_all_auth_devices_keys_from_db(s, env, keys) ==
    LET s0 == [s EXCEPT !.log.fanout = @ + 1]
    IN IF keys # <<>>
       THEN LET s1 == [s0 EXCEPT !.auth_keys = keys, !.log.replaced["auth"] = TRUE]
            IN IF env.leader THEN FanOutAuth(s1, SortedSeq(env.relations)) ELSE s1
       ELSE s0

\* The value of a call of update_all_auth_devices_keys_from_db: the function
\* has no return statement, so the value is None, which is falsy.
update_all_returns_truthy == FALSE

\* Variant: the handler does not return on a unit that is not the leader.
on_handle_relation_any_unit(s, env, resp) ==
    update_all_auth_devices_keys_from_db(
        [s EXCEPT !.log.fetched["auth"] = Fetched(resp)],
        env, _get_auth_devices_keys_from_db(resp).data)

\* _on_handle_relation: leader-elected, upgrade-charm, relation-created.
_on_handle_relation(s, env, resp) ==
    IF ~env.leader THEN s
    ELSE LET auth_devices_keys_dict == _get_auth_devices_keys_from_db(resp)
         IN update_all_auth_devices_keys_from_db(
                [s EXCEPT !.log.fetched["auth"] = Fetched(resp)],
                env, auth_devices_keys_dict.data)

\* AuthDevicesKeysProvider._on_relation_changed
_on_relation_changed(s, env, resp) ==
    LET auth_devices_keys_dict == _get_auth_devices_keys_from_db(resp)
        s1 == IF env.leader
              THEN update_all_auth_devices_keys_from_db(
                       [s EXCEPT !.log.fetched["auth"] = Fetched(resp)],
                       env, auth_devices_keys_dict.data)
              ELSE s
        changes == env.leader /\ update_all_returns_truthy
    IN IF ~s1.log.err /\ changes
       THEN [s1 EXCEPT !.log.notif["auth"] = @ + 1]
       ELSE s1


(***************************************************************************)
(* CosRegistrationServerCharm (src/src/charm.py): the four categories      *)
(***************************************************************************)
\* Which call into a collaborator raises during a handler, if any: none, or
\* the k-th call made while updating category c.  The first exception ends
\* the handler, so one choice per handler covers every outcome.
NoFailure == [cat |-> "none", at |-> 0]
Failures == {NoFailure} \cup
            {[cat |-> c, at |-> k] : c \in {"dashboards", "loki", "prometheus"}, k \in 1..3}
FailsAt(x, c, k) == x.cat = c /\ x.at = k

\* json.dumps(obj)
json_dumps(obj) == <<"json", obj>>

\* for dashboard in grafana_dashboards: copy the uid into the document and
\* add_dashboard(json.dumps(document)); call i + 1 of the category is the
\* add of entry i (call 1 is remove_non_builtin_dashboards).
RECURSIVE AddDashboards(_, _, _, _)
AddDashboards(s, entries, i, x) ==
    IF i > Len(entries) THEN s
    ELSE IF FailsAt(x, "dashboards", i + 1) THEN Raise(s, "dashboards")
    ELSE LET doc == [AsDict(entries[i]).dashboard EXCEPT !.uid = AsDict(entries[i]).uid]
         IN AddDashboards([s EXCEPT !.dashboards = @ \cup {json_dumps(doc)},
                                    !.log.dash_adds = @ + 1],
                          entries, i + 1, x)

\* Variant: the non-builtin dashboards are removed after the fetched ones
\* were added.
update_grafana_dashboards_remove_last(s, resp, x) ==
    LET f == _get_grafana_dashboards_from_db(resp)
        s0 == [s EXCEPT !.log.fetched["dashboards"] = Fetched(resp)]
        md5 == md5_dict(f.data)
    IN IF Truthy(f) /\ md5 # s.stored.dashboard_dict_hash
       THEN LET s1 == AddDashboards([s0 EXCEPT !.stored.dashboard_dict_hash = md5,
                                               !.log.changed["dashboards"] = TRUE],
                                    f.data, 1, x)
            IN IF s1.log.err THEN s1
               ELSE [s1 EXCEPT !.dashboards = {},
                               !.log.dash_removes = @ + 1,
                               !.log.dash_removed = Cardinality(s1.dashboards),
                               !.log.replaced["dashboards"] = TRUE]
       ELSE s0

_update_grafana_dashboards(s, resp, x) ==
    LET f == _get_grafana_dashboards_from_db(resp)
        s0 == [s EXCEPT !.log.fetched["dashboards"] = Fetched(resp)]
        md5 == md5_dict(f.data)
    IN IF Truthy(f) /\ md5 # s.stored.dashboard_dict_hash
       THEN LET s1 == [s0 EXCEPT !.stored.dashboard_dict_hash = md5,
                                 !.log.changed["dashboards"] = TRUE]
            IN IF FailsAt(x, "dashboards", 1) THEN Raise(s1, "dashboards")
               ELSE AddDashboards([s1 EXCEPT !.dashboards = {},
                                             !.log.dash_removes = @ + 1,
                                             !.log.dash_removed = Cardinality(s.dashboards),
                                             !.log.replaced["dashboards"] = TRUE],
                                  f.data, 1, x)
       ELSE s0

\* Variant: the new fingerprint is not written back to the stored state.
update_auth_devices_keys_not_stored(s, env, resp) ==
    LET f == _get_auth_devices_keys_from_db(resp)
        s0 == [s EXCEPT !.log.fetched["auth"] = Fetched(resp)]
        md5_keys_list_hash == md5_list(f.data)
    IN IF Truthy(f) /\ md5_keys_list_hash # s.stored.auth_devices_keys_hash
       THEN update_all_auth_devices_keys_from_db(
                [s0 EXCEPT !.log.changed["auth"] = TRUE], env, f.data)
       ELSE s0

\* Variant: the fingerprints are not compared; every fetch with data updates.
update_auth_devices_keys_always(s, env, resp) ==
    LET f == _get_auth_devices_keys_from_db(resp)
        s0 == [s EXCEPT !.log.fetched["auth"] = Fetched(resp)]
        md5_keys_list_hash == md5_list(f.data)
    IN IF Truthy(f)
       THEN update_all_auth_devices_keys_from_db(
                [s0 EXCEPT !.stored.auth_devices_keys_hash = md5_keys_list_hash,
                           !.log.changed["auth"] = TRUE],
                env, f.data)
       ELSE s0

\* Variant: the fetched value is tested with 'is not None' instead of by its
\* truthiness, so an empty collection goes through the comparison.
update_auth_devices_keys_not_none(s, env, resp) ==
    LET f == _get_auth_devices_keys_from_db(resp)
        s0 == [s EXCEPT !.log.fetched["auth"] = Fetched(resp)]
        md5_keys_list_hash == md5_list(f.data)
    IN IF f.ok /\ md5_keys_list_hash # s.stored.auth_devices_keys_hash
       THEN update_all_auth_devices_keys_from_db(
                [s0 EXCEPT !.stored.auth_devices_keys_hash = md5_keys_list_hash,
                           !.log.changed["auth"] = TRUE],
                env, f.data)
       ELSE s0

_update_auth_devices_keys(s, env, resp) ==
    LET f == _get_auth_devices_keys_from_db(resp)
        s0 == [s EXCEPT !.log.fetched["auth"] = Fetched(resp)]
        md5_keys_list_hash == md5_list(f.data)
    IN IF Truthy(f) /\ md5_keys_list_hash # s.stored.auth_devices_keys_hash
       THEN update_all_auth_devices_keys_from_db(
                [s0 EXCEPT !.stored.auth_devices_keys_hash = md5_keys_list_hash,
                           !.log.changed["auth"] = TRUE],
                env, f.data)
       ELSE s0

\* rules_file["uid"].replace("/", "_") followed by ".rule"
rule_file_name(uid) ==
    Append([i \in 1..Len(uid) |-> IF uid[i] = "/" THEN "_" ELSE uid[i]], ".rule")

\* with open(f"{path}/{name}.rule", "w") as f: f.write(rules): the file of
\* that name is created or truncated.
WriteFile(files, name, content) ==
    {g \in files : g.name # name} \cup {[name |-> name, content |-> content]}

NoDir == [exists |-> FALSE, files |-> {}]

\* _write_alert_rules_to_dir: rmtree(path, ignore_errors=True); mkdir(path)
\* (call 1); one open/write per entry (call i + 1 for entry i).
RECURSIVE WriteRuleFiles(_, _, _, _, _)
WriteRuleFiles(s, c, rules, i, x) ==
    IF i > Len(rules) THEN s
    ELSE IF FailsAt(x, c, i + 1) THEN Raise(s, c)
    ELSE WriteRuleFiles(
             [s EXCEPT !.rules_dir[c].files =
                           WriteFile(@, rule_file_name(rules[i].uid), rules[i].rules)],
             c, rules, i + 1, x)

_write_alert_rules_to_dir(s, c, rules, x) ==
    LET s1 == [s EXCEPT !.rules_dir[c] = NoDir, !.log.replaced[c] = TRUE]
    IN IF FailsAt(x, c, 1) THEN Raise(s1, c)
       ELSE WriteRuleFiles([s1 EXCEPT !.rules_dir[c].exists = TRUE], c, rules, 1, x)

\* _update_loki_alert_rules and _update_prometheus_alert_rules: the same code
\* on loki_alert_rules_hash / prometheus_alert_rules_hash; the last call is
\* the consumer's _reinitialize_alert_rules() / reload_alerts().
UpdateAlertRules(s, c, hash, resp, x) ==
    LET f == _get_alert_rules_from_db(resp)
        s0 == [s EXCEPT !.log.fetched[c] = Fetched(resp)]
        md5_keys_list_hash == md5_list(f.data)
    IN IF Truthy(f) /\ md5_keys_list_hash # s.stored[hash]
       THEN LET s1 == _write_alert_rules_to_dir(
                          [s0 EXCEPT !.stored[hash] = md5_keys_list_hash,
                                     !.log.changed[c] = TRUE],
                          c, f.data, x)
            IN IF s1.log.err THEN s1 ELSE [s1 EXCEPT !.log.notif[c] = @ + 1]
       ELSE s0

_update_loki_alert_rules(s, resp, x) ==
    UpdateAlertRules(s, "loki", "loki_alert_rules_hash", resp, x)

_update_prometheus_alert_rules(s, resp, x) ==
    UpdateAlertRules(s, "prometheus", "prometheus_alert_rules_hash", resp, x)

\* Variant: the updates run whether or not the container can be reached.
on_update_status_unguarded(s, env, rd, ra, rl, rp, x) ==
    LET s1 == _update_grafana_dashboards(s, rd, x)
        s2 == IF s1.log.err THEN s1 ELSE _update_auth_devices_keys(s1, env, ra)
        s3 == IF s2.log.err THEN s2 ELSE _update_loki_alert_rules(s2, rl, x)
    IN IF s3.log.err THEN s3 ELSE _update_prometheus_alert_rules(s3, rp, x)

\* _on_update_status: the four updates in order; an exception ends the handler.
_on_update_status(s, env, rd, ra, rl, rp, x) ==
    IF ~env.can_connect
    THEN [s EXCEPT !.unit_status = "maintenance"]
    ELSE LET s1 == _update_grafana_dashboards(s, rd, x)
             s2 == IF s1.log.err THEN s1 ELSE _update_auth_devices_keys(s1, env, ra)
             s3 == IF s2.log.err THEN s2 ELSE _update_loki_alert_rules(s2, rl, x)
         IN IF s3.log.err THEN s3 ELSE _update_prometheus_alert_rules(s3, rp, x)


(***************************************************************************)
(* CosRegistrationServerCharm (src/src/charm.py): workload, admin password *)
(* and ingress                                                             *)
(***************************************************************************)
\* How the three scripts run in the container end: exit status 0, or one of
\* the exceptions the handlers name in their except clauses.
ScriptOk == "ok"
SetupOutcomes == [install : {ScriptOk, "ExecError"}, configure : {ScriptOk, "ExecError"}]
NoSetupFailure == [install |-> ScriptOk, configure |-> ScriptOk]
SuperUserOutcomes == {ScriptOk, "ExecError", "ChangeError"}

\* ingress.external_host: unset, or the host Traefik told.
ExternalHosts == {"", "1.2.3.4"}

\* _pebble_layer.to_dict()["services"] for an external host.
_pebble_layer(host) ==
    {[name |-> "cos-registration-server",
      override |-> "replace",
      summary |-> "cos-registration-server-k8s service",
      command |-> "/usr/bin/launcher.bash",
      startup |-> "enabled",
      environment |-> [ALLOWED_HOST_DJANGO |-> host,
                       SCRIPT_NAME |-> "/testmodel-cos-registration-server",
                       COS_MODEL_NAME |-> "testmodel"]]}

\* The try block of _update_layer_and_restart: install.bash unless the secret
\* key exists, then configure.bash; an ExecError ends the block and is logged.
SetupServer(s, x) ==
    LET s1 == IF s.workload.secret_key THEN s
              ELSE [s EXCEPT !.log.calls = Append(@, "install.bash")]
        installed == s.workload.secret_key \/ x.install = ScriptOk
        s2 == IF installed
              THEN [s1 EXCEPT !.workload.secret_key = TRUE,
                              !.log.calls = Append(@, "configure.bash")]
              ELSE s1
    IN IF installed /\ x.configure = ScriptOk THEN s2
       ELSE [s2 EXCEPT !.log.setup_failed = TRUE]

\* Variant: the layer is added and the service restarted whatever the plan holds.
update_layer_and_restart_always(s, env, x) ==
    IF env.can_connect
    THEN [SetupServer([s EXCEPT !.log.calls = Append(@, "_update_layer_and_restart")], x)
             EXCEPT !.workload.plan = _pebble_layer(s.workload.external_host),
                    !.workload.running = TRUE,
                    !.log.calls = @ \o <<"add_layer", "restart">>,
                    !.unit_status = "active"]
    ELSE [s EXCEPT !.log.calls = Append(@, "_update_layer_and_restart"),
                   !.unit_status = "waiting: Waiting for Pebble in workload container"]

\* Variant: after pebble-ready the unit stays in maintenance.
update_layer_and_restart_no_status(s, env, x) ==
    LET s0 == [s EXCEPT !.unit_status = "maintenance: Assembling pod spec",
                        !.log.calls = Append(@, "_update_layer_and_restart")]
    IN IF env.can_connect
       THEN LET s1 == SetupServer(s0, x)
                new_layer == _pebble_layer(s.workload.external_host)
            IN IF s1.workload.plan # new_layer
               THEN [s1 EXCEPT !.workload.plan = new_layer,
                               !.workload.running = TRUE,
                               !.log.calls = @ \o <<"add_layer", "restart">>]
               ELSE s1
       ELSE s0

\* _update_layer_and_restart
_update_layer_and_restart(s, env, x) ==
    LET s0 == [s EXCEPT !.unit_status = "maintenance: Assembling pod spec",
                        !.log.calls = Append(@, "_update_layer_and_restart")]
    IN IF env.can_connect
       THEN LET s1 == SetupServer(s0, x)
                new_layer == _pebble_layer(s.workload.external_host)
                services == s1.workload.plan
                s2 == IF services # new_layer
                      THEN [s1 EXCEPT !.workload.plan = new_layer,
                                      !.workload.running = TRUE,
                                      !.log.calls = @ \o <<"add_layer", "restart">>]
                      ELSE s1
            IN [s2 EXCEPT !.unit_status = "active"]
       ELSE [s0 EXCEPT !.unit_status = "waiting: Waiting for Pebble in workload container"]

\* _ingress_config for an external host.
_ingress_config(host) ==
    [routers |->
        {[name |-> "juju-testmodel-cos-registration-server-router",
          entryPoints |-> <<"web">>,
          rule |-> "PathPrefix(/testmodel-cos-registration-server)",
          service |-> "juju-testmodel-cos-registration-server-service",
          tls |-> <<>>],
         [name |-> "juju-testmodel-cos-registration-server-router-tls",
          entryPoints |-> <<"websecure">>,
          rule |-> "PathPrefix(/testmodel-cos-registration-server)",
          service |-> "juju-testmodel-cos-registration-server-service",
          tls |-> <<host>>]},
     services |->
        {[name |-> "juju-testmodel-cos-registration-server-service",
          url |-> "http://cos-registration-server-0.testmodel.svc.cluster.local:8000"]}]

\* ingress.submit_to_traefik(config), as tests/unit/test_charm.py observes it:
\* the ingress relation's application bucket holds the configuration under
\* "config".
submit_to_traefik(s, config) ==
    [s EXCEPT !.workload.config = <<"yaml", config>>,
              !.log.calls = Append(@, "submit_to_traefik")]

\* Variant: the configuration is not submitted.
configure_ingress_no_submit(s, env, joined, x) ==
    IF env.leader /\ (joined \/ s.workload.ingress)
    THEN _update_layer_and_restart([s EXCEPT !.workload.ingress = TRUE], env, x)
    ELSE s

\* Variant: the handler does not return on a unit that is not the leader.
configure_ingress_any_unit(s, env, joined, x) ==
    LET s1 == IF joined THEN [s EXCEPT !.workload.ingress = TRUE] ELSE s
    IN IF s1.workload.ingress
       THEN submit_to_traefik(_update_layer_and_restart(s1, env, x),
                              _ingress_config(s1.workload.external_host))
       ELSE s1

\* _configure_ingress: ingress relation-joined (joined), leader-elected and
\* config-changed.  ingress.is_ready() is whether the ingress object holds a
\* relation.
_configure_ingress(s, env, joined, x) ==
    IF ~env.leader THEN s
    ELSE LET s1 == IF joined THEN [s EXCEPT !.workload.ingress = TRUE] ELSE s
         IN IF s1.workload.ingress
            THEN submit_to_traefik(_update_layer_and_restart(s1, env, x),
                                   _ingress_config(s1.workload.external_host))
            ELSE s1

\* _generate_password: twelve random characters.
Passwords == {"password-A", "password-B"}

\* Variant: the password is stored before the script has run.
generate_admin_password_stored_first(s, generated_password, outcome) ==
    [s EXCEPT !.log.calls = Append(@, "create_super_user.bash"),
              !.log.super_user = [password |-> generated_password, outcome |-> outcome],
              !.stored.admin_password = generated_password]

\* _generate_admin_password
_generate_admin_password(s, generated_password, outcome) ==
    LET s1 == [s EXCEPT !.log.calls = Append(@, "create_super_user.bash"),
                        !.log.super_user = [password |-> generated_password,
                                            outcome |-> outcome]]
    IN IF outcome = ScriptOk
       THEN [s1 EXCEPT !.stored.admin_password = generated_password]
       ELSE s1

\* Variant: a new password is generated at every call.
get_admin_password_regenerate(s, generated_password, outcome) ==
    _generate_admin_password(s, generated_password, outcome)

\* _get_admin_password: the state after the call; the value returned is the
\* stored password of that state.
_get_admin_password(s, generated_password, outcome) ==
    IF s.stored.admin_password # "" THEN s
    ELSE _generate_admin_password(s, generated_password, outcome)

\* Variant: the action does not ask whether the container can be reached.
on_get_admin_password_unguarded(s, env, generated_password, outcome) ==
    LET s1 == _get_admin_password(s, generated_password, outcome)
    IN [s1 EXCEPT !.log.result = [status |-> "ok",
                                  password |-> s1.stored.admin_password]]

\* _on_get_admin_password
_on_get_admin_password(s, env, generated_password, outcome) ==
    IF ~env.can_connect
    THEN [s EXCEPT !.log.result = [status |-> "failed", password |-> ""]]
    ELSE LET s1 == _get_admin_password(s, generated_password, outcome)
         IN [s1 EXCEPT !.log.result = [status |-> "ok",
                                       password |-> s1.stored.admin_password]]


(***************************************************************************)
(* Events                                                                  *)
(***************************************************************************)
\* What the registration server's API answers to each fetch.  In Spec, the
\* specification of the auth-keys engine with its relations and leadership, the
\* keys take every value and the dashboards one; SpecCategories below lets all
\* four categories have data.
DashIn == {HttpError, Http200(<<E1>>)}
AuthIn == {ConnError, HttpError} \cup {Http200(d) : d \in AuthData}
LokiIn == {HttpError}
PromIn == {ConnError}

Env == [leader |-> leader, can_connect |-> can_connect, relations |-> relations]

Init ==
    /\ leader = FALSE
    /\ can_connect = FALSE
    /\ unit_status = "unknown"
    /\ stored = [admin_password |-> "",
                 dashboard_dict_hash |-> EmptyHash,
                 auth_devices_keys_hash |-> EmptyHash,
                 loki_alert_rules_hash |-> EmptyHash,
                 prometheus_alert_rules_hash |-> EmptyHash]
    /\ auth_keys = <<>>
    /\ provider = "auth"
    /\ relations = {}
    /\ bucket = [r \in Relations |-> EmptyBucket]
    /\ dk_keys = <<>>
    /\ dashboards = {}
    /\ rules_dir = [c \in {"loki", "prometheus"} |-> NoDir]
    /\ workload = NoWorkload
    /\ fp = NoDigests
    /\ consumer = NoConsumerData
    /\ blackbox = DefaultBlackbox
    /\ remote = [r \in Relations |-> EmptyBucket]
    /\ last = BlankLog("init")

\* update-status, the API answering from the given sets.
\* The log of a tick, with repeat filled in from the log of the step before.
WithRepeat(s) ==
    [s EXCEPT !.log.repeat =
        [c \in Categories |-> /\ last.op = "update_status"
                              /\ last.fetched[c].st = "ok"
                              /\ s.log.fetched[c] = last.fetched[c]]]

UpdateStatusOn(D, A, L, P, X) ==
    /\ \E rd \in D, ra \in A, rl \in L, rp \in P, x \in X :
           Commit(WithRepeat(
               _on_update_status(Start("update_status"), Env, rd, ra, rl, rp, x)))
    /\ UNCHANGED <<leader, can_connect, relations>>

UpdateStatus == UpdateStatusOn(DashIn, AuthIn, LokiIn, PromIn, Failures)

\* leader-elected: the unit becomes the leader; the charm's _configure_ingress
\* handles the event, then the provider's _on_handle_relation.
LeaderElectedOn(A, X) ==
    /\ ~leader
    /\ leader' = TRUE
    /\ \E ra \in A, x \in X :
           Commit(_on_handle_relation(
                      _configure_ingress(Start("leader_elected"),
                                         [Env EXCEPT !.leader = TRUE], FALSE, x),
                      [Env EXCEPT !.leader = TRUE], ra))
    /\ UNCHANGED <<can_connect, relations>>

LeaderElected == LeaderElectedOn(AuthIn, {NoSetupFailure})

\* Leadership moves to another unit; no handler observes it.
LeaderLost ==
    /\ leader
    /\ leader' = FALSE
    /\ Commit(Start("leader_lost"))
    /\ UNCHANGED <<can_connect, relations>>

\* upgrade-charm
UpgradeCharm ==
    /\ \E ra \in AuthIn : Commit(_on_handle_relation(Start("upgrade_charm"), Env, ra))
    /\ UNCHANGED <<leader, can_connect, relations>>

\* auth-devices-keys relation-created: the relation is active when the
\* handler runs.
RelationCreated ==
    \E r \in Relations \ relations :
        /\ relations' = relations \cup {r}
        /\ \E ra \in AuthIn :
               Commit(_on_handle_relation(Start("relation_created"),
                                          [Env EXCEPT !.relations = relations \cup {r}], ra))
        /\ UNCHANGED <<leader, can_connect>>

\* auth-devices-keys relation-changed
RelationChanged ==
    /\ relations # {}
    /\ \E ra \in AuthIn : Commit(_on_relation_changed(Start("relation_changed"), Env, ra))
    /\ UNCHANGED <<leader, can_connect, relations>>

\* relation-broken: the relation and its buckets are gone; no provider
\* observes the event.
RelationBroken ==
    \E r \in relations :
        /\ relations' = relations \ {r}
        /\ Commit([Start("relation_broken") EXCEPT !.bucket[r] = EmptyBucket])
        /\ UNCHANGED <<leader, can_connect>>

\* The workload container becomes reachable or unreachable.
PebbleChange ==
    /\ can_connect' = ~can_connect
    /\ Commit(Start("pebble_change"))
    /\ UNCHANGED <<leader, relations>>

Next ==
    \/ UpdateStatus
    \/ LeaderElected
    \/ LeaderLost
    \/ UpgradeCharm
    \/ RelationCreated
    \/ RelationChanged
    \/ RelationBroken
    \/ PebbleChange

Spec == Init /\ [][Next]_vars


(***************************************************************************)
(* SpecCategories: update-status ticks with all four categories live, on a *)
(* unit whose leadership and auth-devices-keys relation do not change.     *)
(***************************************************************************)
AllDashIn == {HttpError, Http200(<<E1>>)}
AllAuthIn == {ConnError, Http200(K1)}
AllLokiIn == {HttpError, Http200(<<F1>>)}
AllPromIn == {ConnError, Http200(<<F1, F2>>)}

InitCategories ==
    /\ leader \in BOOLEAN
    /\ can_connect = TRUE
    /\ unit_status = "unknown"
    /\ stored = [admin_password |-> "",
                 dashboard_dict_hash |-> EmptyHash,
                 auth_devices_keys_hash |-> EmptyHash,
                 loki_alert_rules_hash |-> EmptyHash,
                 prometheus_alert_rules_hash |-> EmptyHash]
    /\ auth_keys = <<>>
    /\ provider = "auth"
    /\ relations = {1}
    /\ bucket = [r \in Relations |-> EmptyBucket]
    /\ dk_keys = <<>>
    /\ dashboards = {}
    /\ rules_dir = [c \in {"loki", "prometheus"} |-> NoDir]
    /\ workload = NoWorkload
    /\ fp = NoDigests
    /\ consumer = NoConsumerData
    /\ blackbox = DefaultBlackbox
    /\ remote = [r \in Relations |-> EmptyBucket]
    /\ last = BlankLog("init")

UpdateStatusAll == UpdateStatusOn(AllDashIn, AllAuthIn, AllLokiIn, AllPromIn, Failures)

NextCategories == UpdateStatusAll

SpecCategories == InitCategories /\ [][NextCategories]_vars


(***************************************************************************)
(* Properties                                                              *)
(***************************************************************************)
\* The stored fingerprint of a category (set_default in __init__).
HashField(c) ==
    CASE c = "dashboards" -> "dashboard_dict_hash"
      [] c = "auth" -> "auth_devices_keys_hash"
      [] c = "loki" -> "loki_alert_rules_hash"
      [] c = "prometheus" -> "prometheus_alert_rules_hash"

\* The materialized data set of a category.
Mat(c) ==
    CASE c = "dashboards" -> dashboards
      [] c = "auth" -> auth_keys
      [] OTHER -> rules_dir[c]

\* The handlers that run a reconciliation pass of the auth keys.
PassOps == {"update_status", "leader_elected", "upgrade_charm",
            "relation_created", "relation_changed"}

NoWriteCalls(log) == \A r \in Relations : log.write_calls[r] = 0

\* C1: idempotence.  For every category, when two update-status ticks in a
\* row fetch the same non-empty data, the second leaves the stored fingerprint
\* and the materialized data as they were, does not replace the data, writes
\* to no relation bucket (and does not call the fan-out), and triggers no
\* notification or reload.
C1_Idempotence ==
    [][ \A c \in Categories :
          ( /\ last.op = "update_status"
            /\ last'.op = "update_status"
            /\ last.fetched[c].st = "ok"
            /\ last.fetched[c].data # <<>>
            /\ last'.fetched[c] = last.fetched[c] )
          => /\ stored'[HashField(c)] = stored[HashField(c)]
             /\ Mat(c)' = Mat(c)
             /\ ~last'.changed[c]
             /\ ~last'.replaced[c]
             /\ last'.notif[c] = 0
             /\ (c = "auth" => /\ bucket' = bucket
                               /\ last'.fanout = 0
                               /\ NoWriteCalls(last'))
             /\ (c = "dashboards" => /\ last'.dash_removes = 0
                                     /\ last'.dash_adds = 0)
      ]_vars

\* C1 witness: a tick on a leader with an active relation that completed and
\* fetched, for all four categories, the non-empty data of the tick before.
C1_Witness ==
    /\ last.op = "update_status"
    /\ ~last.err
    /\ leader
    /\ relations # {}
    /\ \A c \in Categories : last.repeat[c] /\ last.fetched[c].data # <<>>


\* The data the last step fetched for the auth keys.
FetchedKeys(log) == log.fetched["auth"].data

GotKeys(log) == log.fetched["auth"].st = "ok" /\ FetchedKeys(log) # <<>>

\* C2: change detection.  When a leader's update-status pass fetches auth keys
\* whose fingerprint differs from the stored one, the stored fingerprint
\* becomes the new one, the fan-out routine runs exactly once, every active
\* relation gets exactly one bucket write (and holds the keys afterwards) and
\* exactly one auth_devices_keys_changed event is emitted.
C2_ChangeDetection ==
    [][ ( /\ last'.op = "update_status"
          /\ leader
          /\ GotKeys(last')
          /\ md5_list(FetchedKeys(last')) # stored.auth_devices_keys_hash )
        => /\ stored'.auth_devices_keys_hash = md5_list(FetchedKeys(last'))
           /\ last'.fanout = 1
           /\ \A r \in relations : /\ last'.write_calls[r] = 1
                                   /\ bucket'[r].auth_devices_keys = json_dumps(FetchedKeys(last'))
           /\ last'.notif["auth"] = 1
      ]_vars

\* C3: published content.  After a leader's update-status pass that detected a
\* change of the auth keys, the pass has ended without an error and the bucket
\* of every active relation holds the serialized key set fetched in that pass.
C3_PublishedContent ==
    (last.op = "update_status" /\ leader /\ last.changed["auth"])
    => /\ ~last.err
       /\ \A r \in relations : bucket[r].auth_devices_keys = json_dumps(FetchedKeys(last))

\* C5: fingerprint/data consistency.  After every pass that fetched keys and
\* ended without an error, whichever handler ran it, the stored auth-keys
\* fingerprint is the fingerprint of the materialized key set.
C5_FingerprintConsistency ==
    (last.op \in PassOps /\ ~last.err /\ GotKeys(last))
    => stored.auth_devices_keys_hash = md5_list(auth_keys)

\* C6: source unavailable.  A step in which the fetch of a category failed
\* leaves that category's stored fingerprint and materialized data as they
\* were, takes no change branch, triggers no notification or reload and raises
\* nothing from that category; for the auth keys no bucket changes and no
\* bucket write is attempted, for the rules the directory is untouched.
C6_SourceUnavailable ==
    [][ \A c \in Categories :
          last'.fetched[c].st = "failed"
          => /\ stored'[HashField(c)] = stored[HashField(c)]
             /\ Mat(c)' = Mat(c)
             /\ ~last'.changed[c]
             /\ ~last'.replaced[c]
             /\ last'.notif[c] = 0
             /\ last'.err_in # c
             /\ (c = "auth" => bucket' = bucket /\ NoWriteCalls(last'))
      ]_vars

\* C6 witness: a leader with an active relation and keys from an earlier pass
\* has just handled a tick or a relation event whose fetch of the keys failed.
C6_Witness ==
    /\ last.op \in {"update_status", "relation_changed"}
    /\ last.fetched["auth"].st = "failed"
    /\ leader
    /\ relations # {}
    /\ auth_keys # <<>>
    /\ stored.auth_devices_keys_hash # EmptyHash

\* The fingerprint function the engine applies to the data of a category.
Fingerprint(c, d) == IF c = "dashboards" THEN md5_dict(d) ELSE md5_list(d)

\* What the materialized data of a category is once data d is in place.
Expected(c, d) ==
    CASE c = "dashboards" ->
           {json_dumps([AsDict(d[i]).dashboard EXCEPT !.uid = AsDict(d[i]).uid]) :
               i \in 1..Len(d)}
      [] c = "auth" -> d
      [] OTHER ->
           [exists |-> TRUE,
            files |-> {[name |-> rule_file_name(d[i].uid), content |-> d[i].rules] :
                          i \in 1..Len(d)}]

\* C7: retry after a partial failure.  The unit never rests, after a tick, in
\* a state where a category's stored fingerprint is that of the data just
\* fetched while its materialized data (or, for the keys on the leader, a
\* bucket of an active relation) is not that data.
C7_RetryAfterFailure ==
    \A c \in Categories :
        ( /\ last.op = "update_status"
          /\ last.fetched[c].st = "ok"
          /\ last.fetched[c].data # <<>>
          /\ stored[HashField(c)] = Fingerprint(c, last.fetched[c].data) )
        => /\ Mat(c) = Expected(c, last.fetched[c].data)
           /\ (c = "auth" /\ leader
                 => \A r \in relations : bucket[r].auth_devices_keys = json_dumps(FetchedKeys(last)))

C9_EmptyReplaces ==
    [][ ( /\ last'.op = "update_status"
          /\ last'.fetched["auth"] = [st |-> "ok", data |-> <<>>]
          /\ auth_keys # <<>> )
        => /\ auth_keys' = <<>>
           /\ stored'.auth_devices_keys_hash = md5_list(<<>>)
           /\ (leader => \A r \in relations : bucket'[r].auth_devices_keys = json_dumps(<<>>))
      ]_vars

\* C10: empty to empty.  A tick that fetches an empty collection while no keys
\* are materialized (the first-run state, and the state after such a tick)
\* attempts no bucket write, does not call the fan-out, changes no bucket,
\* emits no notification and leaves the key set empty.
C10_EmptyToEmpty ==
    [][ ( /\ last'.op = "update_status"
          /\ last'.fetched["auth"] = [st |-> "ok", data |-> <<>>]
          /\ auth_keys = <<>> )
        => /\ NoWriteCalls(last')
           /\ last'.fanout = 0
           /\ bucket' = bucket
           /\ last'.notif["auth"] = 0
           /\ auth_keys' = <<>>
      ]_vars

\* C10 witness: on a leader with an active relation and nothing stored since
\* construction, the second of two ticks in a row that fetched an empty
\* collection.
C10_Witness ==
    /\ last.op = "update_status"
    /\ last.repeat["auth"]
    /\ last.fetched["auth"] = [st |-> "ok", data |-> <<>>]
    /\ leader
    /\ relations # {}
    /\ auth_keys = <<>>
    /\ stored.auth_devices_keys_hash = EmptyHash


(***************************************************************************)
(* DevicesKeysProvider (src/lib/charms/devices_pub_keys_manager_k8s)       *)
(***************************************************************************)
\* devices_keys_file: the constructor's default path.
devices_keys_file == "/server_data/devices_keys"

\* What open(devices_keys_file) and json.load meet: an exception, or the
\* mapping held by the file.
DK1 == << <<"robot-1", "ssh-rsa CCC">> >>
Unreadable == [ok |-> FALSE, data |-> <<>>]
FileIn == {Unreadable, [ok |-> TRUE, data |-> <<>>], [ok |-> TRUE, data |-> DK1]}

\* relation.data[app]["devices_pub_keys"] = json.dumps({"ssh_keys": stored})
_update_devices_pub_keys_on_relation(s, r) ==
    [s EXCEPT !.bucket[r]["devices_pub_keys"] = json_dumps([ssh_keys |-> s.dk_keys]),
              !.log.write_calls[r] = @ + 1]

RECURSIVE FanOutDevicesKeys(_, _)
FanOutDevicesKeys(s, rels) ==
    IF rels = <<>> THEN s
    ELSE FanOutDevicesKeys(_update_devices_pub_keys_on_relation(s, Head(rels)), Tail(rels))

\* Variant: the relation buckets are written without asking is_leader().
update_all_devices_keys_ungated(s, env, file) ==
    IF devices_keys_file # ""
    THEN FanOutDevicesKeys(
             [s EXCEPT !.dk_keys = IF file.ok THEN file.data ELSE <<>>,
                       !.log.deleted = Len(s.dk_keys),
                       !.log.file_read = IF file.ok THEN "ok" ELSE "failed",
                       !.log.fanout = @ + 1],
             SortedSeq(env.relations))
    ELSE s

\* Variant: the stored keys are kept when the file cannot be read.
update_all_devices_keys_kept_on_failure(s, env, file) ==
    IF devices_keys_file # ""
    THEN LET s1 == [s EXCEPT !.dk_keys = IF file.ok THEN file.data ELSE @,
                             !.log.file_read = IF file.ok THEN "ok" ELSE "failed",
                             !.log.fanout = @ + 1]
         IN IF env.leader THEN FanOutDevicesKeys(s1, SortedSeq(env.relations)) ELSE s1
    ELSE s

\* _update_all_devices_keys_from_dir: every stored key is deleted, the file is
\* loaded (on an exception the emptied mapping is kept), the result is stored
\* and, on the leader, written to every relation.
_update_all_devices_keys_from_dir(s, env, file) ==
    IF devices_keys_file # ""
    THEN LET s1 == [s EXCEPT !.dk_keys = IF file.ok THEN file.data ELSE <<>>,
                             !.log.deleted = Len(s.dk_keys),
                             !.log.file_read = IF file.ok THEN "ok" ELSE "failed",
                             !.log.fanout = @ + 1]
         IN IF env.leader THEN FanOutDevicesKeys(s1, SortedSeq(env.relations)) ELSE s1
    ELSE s

\* DevicesKeysProvider._on_relation_created
_on_relation_created(s, env, file) ==
    IF env.leader THEN _update_all_devices_keys_from_dir(s, env, file) ELSE s

\* The value of a call of _update_all_devices_keys_from_dir: None.
update_all_devices_keys_returns_truthy == FALSE

\* DevicesKeysProvider._on_relation_changed
DevicesKeys_on_relation_changed(s, env, file) ==
    LET s1 == IF env.leader THEN _update_all_devices_keys_from_dir(s, env, file) ELSE s
        changes == env.leader /\ update_all_devices_keys_returns_truthy
    IN IF changes THEN [s1 EXCEPT !.log.notif["auth"] = @ + 1] ELSE s1

\* leader-elected on a unit with a DevicesKeysProvider
DKLeaderElected ==
    /\ ~leader
    /\ leader' = TRUE
    /\ \E file \in FileIn :
           Commit(_update_all_devices_keys_from_dir(
                      Start("leader_elected"), [Env EXCEPT !.leader = TRUE], file))
    /\ UNCHANGED <<can_connect, relations>>

\* upgrade-charm on a unit with a DevicesKeysProvider
DKUpgradeCharm ==
    /\ \E file \in FileIn :
           Commit(_update_all_devices_keys_from_dir(Start("upgrade_charm"), Env, file))
    /\ UNCHANGED <<leader, can_connect, relations>>

\* devices-keys relation-created
DKRelationCreated ==
    \E r \in Relations \ relations :
        /\ relations' = relations \cup {r}
        /\ \E file \in FileIn :
               Commit(_on_relation_created(
                          Start("relation_created"),
                          [Env EXCEPT !.relations = relations \cup {r}], file))
        /\ UNCHANGED <<leader, can_connect>>

\* devices-keys relation-changed
DKRelationChanged ==
    /\ relations # {}
    /\ \E file \in FileIn :
           Commit(DevicesKeys_on_relation_changed(Start("relation_changed"), Env, file))
    /\ UNCHANGED <<leader, can_connect, relations>>

(***************************************************************************)
(* BlackboxProbesProvider (src/lib/charms/blackbox_k8s)                    *)
(***************************************************************************)
\* self.topology.as_dict()
_scrape_metadata ==
    [model |-> "testmodel", application |-> "cos-registration-server",
     unit |-> "cos-registration-server/0"]

\* Variant: scrape_modules is not written.
write_probes_spec_without_modules(s, r) ==
    [s EXCEPT !.bucket[r]["scrape_metadata"] = json_dumps(_scrape_metadata),
              !.bucket[r]["scrape_probes"] = json_dumps(s.blackbox.probes),
              !.log.write_calls[r] = @ + 2]

\* The three assignments of set_probes_spec for one relation.
WriteProbesSpec(s, r) ==
    [s EXCEPT !.bucket[r]["scrape_metadata"] = json_dumps(_scrape_metadata),
              !.bucket[r]["scrape_probes"] = json_dumps(s.blackbox.probes),
              !.bucket[r]["scrape_modules"] = json_dumps(s.blackbox.modules),
              !.log.write_calls[r] = @ + 3]

RECURSIVE FanOutProbes(_, _)
FanOutProbes(s, rels) ==
    IF rels = <<>> THEN s
    ELSE FanOutProbes(WriteProbesSpec(s, Head(rels)), Tail(rels))

\* set_probes_spec: relation-joined and every refresh event.
set_probes_spec(s, env) ==
    IF ~env.leader THEN s
    ELSE FanOutProbes(s, SortedSeq(env.relations))

\* blackbox-probes relation-joined: a unit of the remote application joins a
\* relation, which is active from then on.
BBRelationJoined ==
    \E r \in Relations :
        /\ relations' = relations \cup {r}
        /\ Commit(set_probes_spec(Start("relation_joined"),
                                  [Env EXCEPT !.relations = relations \cup {r}]))
        /\ UNCHANGED <<leader, can_connect>>

\* One of the provider's refresh events.
BBRefresh ==
    /\ Commit(set_probes_spec(Start("refresh"), Env))
    /\ UNCHANGED <<leader, can_connect, relations>>

\* The unit becomes the leader; the provider observes leader-elected only if
\* the charm names it as a refresh event (BBRefresh).
BBLeaderElected ==
    /\ ~leader
    /\ leader' = TRUE
    /\ Commit(Start("leader_elected"))
    /\ UNCHANGED <<can_connect, relations>>

(***************************************************************************)
(* SpecProviders: a unit with one of the three providers.  The providers   *)
(* are separate objects that share nothing but the unit's leadership, so a *)
(* behaviour follows the one chosen initially.                             *)
(***************************************************************************)
InitProviders ==
    /\ leader = FALSE
    /\ can_connect = FALSE
    /\ unit_status = "unknown"
    /\ stored = [admin_password |-> "",
                 dashboard_dict_hash |-> EmptyHash,
                 auth_devices_keys_hash |-> EmptyHash,
                 loki_alert_rules_hash |-> EmptyHash,
                 prometheus_alert_rules_hash |-> EmptyHash]
    /\ auth_keys = <<>>
    /\ provider \in {"auth", "devices_keys", "blackbox"}
    /\ relations = {}
    /\ bucket = [r \in Relations |-> EmptyBucket]
    /\ dk_keys = <<>>
    /\ dashboards = {}
    /\ rules_dir = [c \in {"loki", "prometheus"} |-> NoDir]
    /\ workload = NoWorkload
    /\ fp = NoDigests
    /\ consumer = NoConsumerData
    /\ blackbox \in IF provider = "blackbox"
                    THEN {BlackboxProbesProvider__init__(p, m) : p \in ProbesIn, m \in ModulesIn}
                    ELSE {DefaultBlackbox}
    /\ remote = [r \in Relations |-> EmptyBucket]
    /\ last = BlankLog("init")

AuthProviderNext ==
    /\ provider = "auth"
    /\ \/ UpdateStatus
       \/ LeaderElected
       \/ UpgradeCharm
       \/ RelationCreated
       \/ RelationChanged

DevicesKeysProviderNext ==
    /\ provider = "devices_keys"
    /\ \/ DKLeaderElected
       \/ DKUpgradeCharm
       \/ DKRelationCreated
       \/ DKRelationChanged

BlackboxProviderNext ==
    /\ provider = "blackbox"
    /\ \/ BBLeaderElected
       \/ BBRelationJoined
       \/ BBRefresh

NextProviders ==
    \/ AuthProviderNext
    \/ DevicesKeysProviderNext
    \/ BlackboxProviderNext
    \/ LeaderLost
    \/ RelationBroken
    \/ PebbleChange

SpecProviders == InitProviders /\ [][NextProviders]_vars

\* C4: leader gating.  Whatever it handles (leader-elected, upgrade-charm,
\* relation-created, -joined, -changed, update-status, a refresh event), a
\* unit that is not the leader attempts no write to a relation's application
\* bucket and leaves the bucket of every relation as it was; this for the
\* auth-devices-keys, the devices-keys and the blackbox-probes provider.
C4_LeaderGating ==
    [][ ~leader'
        => /\ NoWriteCalls(last')
           /\ \A r \in relations' : bucket'[r] = bucket[r]
      ]_vars

\* C4 witness, one per provider: a unit that is not the leader has handled a
\* trigger that makes the leader write (its stored keys were replaced, or a
\* relation is active at a refresh) and has written nothing.
C4_Witness ==
    /\ ~leader
    /\ relations # {}
    /\ NoWriteCalls(last)
    /\ \/ provider = "auth" /\ last.op = "update_status" /\ last.replaced["auth"]
       \/ provider = "devices_keys" /\ last.op = "upgrade_charm" /\ dk_keys # <<>>
       \/ provider = "blackbox" /\ last.op = "refresh"


\* C11: first-run transition on empty data.  A tick that reaches the source
\* and fetches an empty collection for a category whose stored fingerprint is
\* still the initial value leaves a fingerprint that is no longer the initial
\* value.
C11_FirstRunOnEmpty ==
    [][ \A c \in Categories :
          ( /\ last'.op = "update_status"
            /\ last'.fetched[c] = [st |-> "ok", data |-> <<>>]
            /\ stored[HashField(c)] = EmptyHash )
          => stored'[HashField(c)] # EmptyHash
      ]_vars


(***************************************************************************)
(* SpecFingerprint: the fingerprint functions on their own.  Two values of *)
(* the shape a category's request returns are fingerprinted with the       *)
(* function the engine applies to that category.                           *)
(***************************************************************************)
\* The orders in which the pairs of a two-key mapping can arrive.
Orders(p, q) == { <<p, q>>, <<q, p>> }

\* Dashboard entries, in both key orders.
DashEntries ==
    Orders(<<"uid", "d1">>, <<"dashboard", [title |-> "one", uid |-> ""]>>)
    \cup Orders(<<"uid", "d2">>, <<"dashboard", [title |-> "two", uid |-> "old"]>>)

\* Alert rule entries, in both key orders.
RuleEntries ==
    Orders(<<"uid", "a/b">>, <<"rules", "rules-1">>)
    \cup Orders(<<"uid", "c">>, <<"rules", "rules-2">>)

\* Device entries (uid, public_ssh_key), in both key orders.
DeviceEntries ==
    Orders(<<"uid", "0">>, <<"public_ssh_key", "ssh-rsa AAA">>)
    \cup Orders(<<"uid", "1">>, <<"public_ssh_key", "ssh-rsa BBB">>)

\* Non-empty lists of at most two entries.
ListsOf(E) == { <<e>> : e \in E } \cup { <<e, f>> : e \in E, f \in E }

\* The lists of entries a category's request can return.
FingerprintInputs(c) ==
    CASE c = "dashboards" -> ListsOf(DashEntries)
      [] c = "auth" -> ListsOf(DeviceEntries)
      [] OTHER -> ListsOf(RuleEntries)

\* The devices request answering with a mapping of device id to key, as in
\* tests/unit/test_charm.py.
KeyMappings == {K1, K2} \cup Orders(<<"1", "ssh-rsa BBB">>, <<"0", "ssh-rsa AAA">>)

\* Logical equality of two fetched values: the same mapping, or lists of the
\* same length holding the same mappings at every position.
SameValue(shape, a, b) ==
    IF shape = "mapping"
    THEN AsDict(a) = AsDict(b)
    ELSE Len(a) = Len(b) /\ \A i \in DOMAIN a : AsDict(a[i]) = AsDict(b[i])

\* Two lists of entries are fingerprinted for category c.
DigestLists ==
    /\ \E c \in Categories : \E a \in FingerprintInputs(c), b \in FingerprintInputs(c) :
           fp' = [cat |-> c, shape |-> "list", a |-> a, b |-> b,
                  ha |-> Fingerprint(c, a), hb |-> Fingerprint(c, b)]
    /\ UNCHANGED <<leader, can_connect, unit_status, stored, auth_keys, provider,
                   relations, bucket, dk_keys, dashboards, rules_dir, workload,
                   consumer, blackbox, remote, last>>

\* Two mappings of device id to key are fingerprinted for the auth keys.
DigestMappings ==
    /\ \E a \in KeyMappings, b \in KeyMappings :
           fp' = [cat |-> "auth", shape |-> "mapping", a |-> a, b |-> b,
                  ha |-> Fingerprint("auth", a), hb |-> Fingerprint("auth", b)]
    /\ UNCHANGED <<leader, can_connect, unit_status, stored, auth_keys, provider,
                   relations, bucket, dk_keys, dashboards, rules_dir, workload,
                   consumer, blackbox, remote, last>>

NextFingerprint == DigestLists \/ DigestMappings

SpecFingerprint == Init /\ [][NextFingerprint]_vars

\* C12: the fingerprint does not depend on key order.  For every category,
\* two fetched values that are logically equal (they differ at most in the
\* order of the keys of a mapping) have equal digests.
C12_FingerprintKeyOrder ==
    (fp.cat # "none" /\ SameValue(fp.shape, fp.a, fp.b)) => fp.ha = fp.hb


\* C13 as claimed: non-leader units are passive.  A step that ends on a unit
\* that is not the leader changes no stored fingerprint and no materialized
\* data set, whatever it handles.
C13_NonLeaderPassive ==
    [][ (~leader' /\ last'.op \in PassOps)
        => /\ stored' = stored
           /\ \A c \in Categories : Mat(c)' = Mat(c)
      ]_vars

\* C13 amended: on a unit that is not the leader, upgrade-charm,
\* relation-created and relation-changed change no stored fingerprint and no
\* materialized data set; update-status reconciles as on the leader, short of
\* the bucket writes: fetched non-empty keys whose fingerprint differs from
\* the stored one become the materialized key set and their fingerprint the
\* stored one.
C13_NonLeaderPassiveOnRelationEvents ==
    [][ /\ (~leader' /\ last'.op \in PassOps \ {"update_status"})
           => /\ stored' = stored
              /\ \A c \in Categories : Mat(c)' = Mat(c)
        /\ ( /\ ~leader'
             /\ last'.op = "update_status"
             /\ ~last'.err
             /\ GotKeys(last')
             /\ md5_list(FetchedKeys(last')) # stored.auth_devices_keys_hash )
           => /\ stored'.auth_devices_keys_hash = md5_list(FetchedKeys(last'))
              /\ auth_keys' = FetchedKeys(last')
              /\ NoWriteCalls(last')
      ]_vars

\* C13 witness: a unit that is not the leader holds keys and a fingerprint
\* from a tick and has then handled a relation-changed or an upgrade-charm.
C13_Witness ==
    /\ ~leader
    /\ last.op \in {"relation_changed", "upgrade_charm"}
    /\ relations # {}
    /\ auth_keys # <<>>
    /\ stored.auth_devices_keys_hash = md5_list(auth_keys)


\* C14: independent fan-out failures.  After a pass on the leader in which the
\* write to a relation's bucket failed, the pass was not aborted (no exception
\* left the handler) and the write to every active relation was attempted.
C14_IndependentFanOut ==
    (last.op \in PassOps /\ leader /\ last.write_failed > 0)
    => /\ ~last.err
       /\ \A r \in relations : last.write_calls[r] = 1


(***************************************************************************)
(* SpecConverge: the engine with update-status ticks that keep coming.     *)
(* The container is reachable and leadership, once gained, is kept.        *)
(***************************************************************************)
InitConverge ==
    /\ leader = FALSE
    /\ can_connect = TRUE
    /\ unit_status = "unknown"
    /\ stored = [admin_password |-> "",
                 dashboard_dict_hash |-> EmptyHash,
                 auth_devices_keys_hash |-> EmptyHash,
                 loki_alert_rules_hash |-> EmptyHash,
                 prometheus_alert_rules_hash |-> EmptyHash]
    /\ auth_keys = <<>>
    /\ provider = "auth"
    /\ relations = {}
    /\ bucket = [r \in Relations |-> EmptyBucket]
    /\ dk_keys = <<>>
    /\ dashboards = {}
    /\ rules_dir = [c \in {"loki", "prometheus"} |-> NoDir]
    /\ workload = NoWorkload
    /\ fp = NoDigests
    /\ consumer = NoConsumerData
    /\ blackbox = DefaultBlackbox
    /\ remote = [r \in Relations |-> EmptyBucket]
    /\ last = BlankLog("init")

\* update-status with the dashboards and the rules unavailable.
UpdateStatusKeys == UpdateStatusOn({HttpError}, AuthIn, LokiIn, PromIn, {NoFailure})

NextConverge ==
    \/ UpdateStatusKeys
    \/ LeaderElected
    \/ UpgradeCharm
    \/ RelationCreated
    \/ RelationChanged

\* update-status while the source answers the devices request with K1.
UpdateStatusK1 == UpdateStatusOn({HttpError}, {Http200(K1)}, LokiIn, PromIn, {NoFailure})

\* update-status is a timer event: while the source answers with K1, a tick
\* that meets this answer keeps being delivered (a tick that changes nothing
\* is a stuttering step).
SpecConverge == InitConverge /\ [][NextConverge]_vars /\ WF_vars(UpdateStatusK1)

\* A step in which the source, if asked, answers with the key set K1.
SourceAnswersK1 ==
    last'.fetched["auth"] \in {NotFetched, [st |-> "ok", data |-> K1]}

\* Every active relation's bucket holds the key set K1.
Converged == \A r \in relations : bucket[r].auth_devices_keys = json_dumps(K1)

\* C15: eventual convergence.  If the unit becomes the leader and from some
\* point on the source answers every request with the key set K1, then, with
\* update-status ticks that keep coming, from some point on every active
\* relation's bucket holds K1; relations created and leaders elected while
\* the source was unreachable are included.
C15_EventualConvergence ==
    (<>leader /\ <>[][SourceAnswersK1]_vars) => <>[]Converged


(***************************************************************************)
(* SpecWorkload: the workload container, the admin password action and the *)
(* ingress relation.  The registration server's API is unreachable, so the *)
(* provider's part of leader-elected changes nothing.                      *)
(***************************************************************************)
\* <name>-pebble-ready
PebbleReady ==
    /\ \E x \in SetupOutcomes :
           Commit(_update_layer_and_restart(Start("pebble_ready"), Env, x))
    /\ UNCHANGED <<leader, can_connect, relations>>

\* ingress.on.ready: Traefik has told the external host; _on_ingress_ready.
IngressReady ==
    /\ workload.ingress
    /\ \E h \in ExternalHosts \ {""}, x \in SetupOutcomes :
           Commit(_update_layer_and_restart(
                      [Start("ingress_ready") EXCEPT !.workload.external_host = h],
                      Env, x))
    /\ UNCHANGED <<leader, can_connect, relations>>

\* ingress relation-joined: the relation exists from now on.
IngressJoined ==
    /\ ~workload.ingress
    /\ \E x \in SetupOutcomes :
           Commit(_configure_ingress(
                      [Start("ingress_relation_joined") EXCEPT !.workload.ingress = TRUE],
                      Env, TRUE, x))
    /\ UNCHANGED <<leader, can_connect, relations>>

\* The ingress relation is removed, with its bucket and the host it told.
IngressBroken ==
    /\ workload.ingress
    /\ Commit([Start("ingress_relation_broken") EXCEPT
                   !.workload.ingress = FALSE,
                   !.workload.config = Absent,
                   !.workload.external_host = ""])
    /\ UNCHANGED <<leader, can_connect, relations>>

\* config-changed
ConfigChanged ==
    /\ \E x \in SetupOutcomes :
           Commit(_configure_ingress(Start("config_changed"), Env, FALSE, x))
    /\ UNCHANGED <<leader, can_connect, relations>>

\* The get-admin-password action.
GetAdminPassword ==
    /\ \E generated_password \in Passwords, outcome \in SuperUserOutcomes :
           Commit(_on_get_admin_password(Start("get_admin_password"), Env,
                                         generated_password, outcome))
    /\ UNCHANGED <<leader, can_connect, relations>>

\* The pod is replaced: Pebble starts with an empty plan and nothing running;
\* the storage, with the secret key, is kept.
PodReplaced ==
    /\ can_connect' = FALSE
    /\ Commit([Start("pod_replaced") EXCEPT !.workload.plan = NoServices,
                                            !.workload.running = FALSE])
    /\ UNCHANGED <<leader, relations>>

NextWorkload ==
    \/ PebbleReady
    \/ IngressReady
    \/ IngressJoined
    \/ IngressBroken
    \/ ConfigChanged
    \/ GetAdminPassword
    \/ LeaderElectedOn({ConnError}, SetupOutcomes)
    \/ LeaderLost
    \/ PebbleChange
    \/ PodReplaced

SpecWorkload == Init /\ [][NextWorkload]_vars

\* Whether a handler made a call, and how often.
Called(log, c) == \E i \in DOMAIN log.calls : log.calls[i] = c

Count(log, c) == Cardinality({i \in DOMAIN log.calls : log.calls[i] = c})

\* C16: restart only on a configuration change.  Run with the container
\* reachable, _update_layer_and_restart adds the layer once and restarts the
\* service once if the services of the plan differ from the services of the
\* layer computed for the current external host, and does neither if they are
\* equal; run again right after, for the same external host, it adds no layer
\* and restarts nothing.
C16_RestartOnlyOnChange ==
    [][ (Called(last', "_update_layer_and_restart") /\ can_connect)
        => LET differ == workload.plan # _pebble_layer(workload'.external_host)
           IN /\ Count(last', "add_layer") = (IF differ THEN 1 ELSE 0)
              /\ Count(last', "restart") = (IF differ THEN 1 ELSE 0)
              /\ ( /\ Called(last, "_update_layer_and_restart")
                   /\ unit_status = "active"
                   /\ workload'.external_host = workload.external_host )
                 => ~Called(last', "add_layer") /\ ~Called(last', "restart")
      ]_vars

\* C16 witness: pebble-ready handled a second time in a row with the container
\* reachable and the plan already holding the layer: nothing added, nothing
\* restarted.
C16_Witness ==
    /\ last.op = "pebble_ready"
    /\ can_connect
    /\ workload.plan = _pebble_layer(workload.external_host)
    /\ ~Called(last, "add_layer")
    /\ ~Called(last, "restart")

\* C17: a setup failure shows in the status.  After a handler in which
\* install.bash or configure.bash failed, the unit status is not Active.
C17_SetupFailureVisible ==
    last.setup_failed => unit_status # "active"

C19_AdminPasswordOnce ==
    [][ (last'.op = "get_admin_password" /\ stored.admin_password # "")
        => /\ last'.result = [status |-> "ok", password |-> stored.admin_password]
           /\ ~Called(last', "create_super_user.bash")
      ]_vars

\* C19 amended: once a password is stored, a later get-admin-password action
\* never runs the script again and never changes the stored password; run
\* with the container reachable it returns the stored password, run with the
\* container unreachable it fails and returns no password.
C19_AdminPasswordOnceWhenReachable ==
    [][ (last'.op = "get_admin_password" /\ stored.admin_password # "")
        => /\ stored'.admin_password = stored.admin_password
           /\ ~Called(last', "create_super_user.bash")
           /\ last'.result = IF can_connect
                             THEN [status |-> "ok", password |-> stored.admin_password]
                             ELSE [status |-> "failed", password |-> ""]
      ]_vars

\* C19 witness: two actions in a row returned a password, the second without
\* running the script.
C19_Witness ==
    /\ last.op = "get_admin_password"
    /\ last.result = [status |-> "ok", password |-> stored.admin_password]
    /\ stored.admin_password # ""
    /\ ~Called(last, "create_super_user.bash")

\* C20: ingress configuration.  When ingress relation-joined, leader-elected
\* or config-changed is handled by the leader while the ingress relation
\* exists, the handler runs _update_layer_and_restart, then submits the
\* configuration to Traefik, and the ingress relation's application bucket
\* holds the router and service configuration computed for the external host.
C20_IngressConfiguration ==
    [][ ( /\ last'.op \in {"ingress_relation_joined", "leader_elected", "config_changed"}
          /\ leader'
          /\ workload'.ingress )
        => /\ Count(last', "_update_layer_and_restart") = 1
           /\ Count(last', "submit_to_traefik") = 1
           /\ Head(last'.calls) = "_update_layer_and_restart"
           /\ last'.calls[Len(last'.calls)] = "submit_to_traefik"
           /\ workload'.config = <<"yaml", _ingress_config(workload'.external_host)>>
      ]_vars

\* C20 witness: the leader handled config-changed after Traefik told the host
\* and the bucket holds the configuration for that host.
C20_Witness ==
    /\ last.op = "config_changed"
    /\ leader
    /\ workload.ingress
    /\ workload.external_host # ""
    /\ workload.config = <<"yaml", _ingress_config(workload.external_host)>>


\* The items of a key set held as a sequence of pairs.
Items(m) == {m[i] : i \in DOMAIN m}

C23_UnreadableKeyFile ==
    [][ (provider = "devices_keys" /\ last'.file_read = "failed")
        => /\ ~last'.err
           /\ dk_keys' = <<>>
           /\ leader'
              => \A r \in relations' :
                     /\ last'.write_calls[r] = 1
                     /\ bucket'[r].devices_pub_keys = json_dumps([ssh_keys |-> <<>>])
      ]_vars

\* C23 witness: a leader that held keys read from the file has handled an
\* event with the file unreadable: the keys were deleted and the bucket of
\* every relation holds the empty mapping.
C23_Witness ==
    /\ provider = "devices_keys"
    /\ last.file_read = "failed"
    /\ last.deleted > 0
    /\ leader
    /\ relations # {}
    /\ \A r \in relations : bucket[r].devices_pub_keys = json_dumps([ssh_keys |-> <<>>])

\* C26: the categories are independent.  In an update-status tick handled
\* with the container reachable, every one of the four categories is
\* reconciled (its data is fetched), whatever happened to the others, and a
\* category's stored fingerprint changes only to the fingerprint of the data
\* fetched for that category.
C26_CategoriesIndependent ==
    [][ (last'.op = "update_status" /\ can_connect)
        => \A c \in Categories :
               /\ last'.fetched[c].st # "skipped"
               /\ stored'[HashField(c)] # stored[HashField(c)]
                  => /\ last'.fetched[c].st = "ok"
                     /\ stored'[HashField(c)] = Fingerprint(c, last'.fetched[c].data)
      ]_vars

\* C27: lifecycle of a stored fingerprint.  It starts as the empty value; a
\* pass overwrites it exactly when the pass fetched data whose fingerprint
\* differs from it; once it is not the empty value it never is again.
C27_FingerprintLifecycle ==
    [][ \A c \in Categories :
          /\ last'.fetched[c].st = "ok"
             => (stored'[HashField(c)] # stored[HashField(c)]
                   <=> Fingerprint(c, last'.fetched[c].data) # stored[HashField(c)])
          /\ last'.fetched[c].st # "ok"
             => stored'[HashField(c)] = stored[HashField(c)]
          /\ stored[HashField(c)] # EmptyHash => stored'[HashField(c)] # EmptyHash
      ]_vars

\* C28: keys are sent when a relation is created.  After relation-created,
\* leader-elected or upgrade-charm handled on the leader with the source
\* returning a non-empty key set, the handler has ended without an error and
\* the bucket of every active relation holds that key set.
C28_KeysSentOnCreation ==
    ( /\ last.op \in {"relation_created", "leader_elected", "upgrade_charm"}
      /\ leader
      /\ GotKeys(last) )
    => /\ ~last.err
       /\ \A r \in relations : bucket[r].auth_devices_keys = json_dumps(FetchedKeys(last))

(***************************************************************************)
(* SpecReplace: update-status ticks with the dashboards and the rules      *)
(* taking every value, on a unit whose devices request is not answered.    *)
(***************************************************************************)
ReplaceDashIn == {HttpError} \cup {Http200(d) : d \in DashData}
ReplaceLokiIn == {HttpError} \cup {Http200(d) : d \in RuleData \cup {<<F1, F3>>}}
ReplacePromIn == {ConnError, Http200(<<F2>>)}

\* The collaborator calls that may raise in these ticks.
ReplaceFailures ==
    {NoFailure} \cup {[cat |-> c, at |-> 2] : c \in {"dashboards", "loki"}}

UpdateStatusReplace ==
    UpdateStatusOn(ReplaceDashIn, {ConnError}, ReplaceLokiIn, ReplacePromIn, ReplaceFailures)

NextReplace == UpdateStatusReplace

SpecReplace == InitConverge /\ [][NextReplace]_vars

\* C24: alert rules reconciliation.  For Loki and for Prometheus, in a tick
\* that fetched a non-empty rule list and in which no call made for the
\* category raised, the directory is rewritten and the reload invoked once
\* if the list's fingerprint differs from the stored one, and neither happens
\* otherwise; after a rewrite the directory holds, for every fetched entry,
\* exactly one file named after its uid with that entry's rules, and no other
\* file.
C24_AlertRulesReconciliation ==
    [][ \A c \in {"loki", "prometheus"} :
          ( /\ last'.op = "update_status"
            /\ last'.fetched[c].st = "ok"
            /\ last'.fetched[c].data # <<>>
            /\ last'.err_in # c )
          => LET d == last'.fetched[c].data
                 differ == md5_list(d) # stored[HashField(c)]
                 files == rules_dir'[c].files
             IN /\ last'.replaced[c] <=> differ
                /\ last'.notif[c] = (IF differ THEN 1 ELSE 0)
                /\ ~differ => rules_dir'[c] = rules_dir[c]
                /\ differ
                   => /\ rules_dir'[c].exists
                      /\ \A i \in DOMAIN d :
                             /\ Cardinality({g \in files : g.name = rule_file_name(d[i].uid)}) = 1
                             /\ [name |-> rule_file_name(d[i].uid), content |-> d[i].rules] \in files
                      /\ \A g \in files : \E i \in DOMAIN d : g.name = rule_file_name(d[i].uid)
      ]_vars

C31_UpdateStatusContainerDown ==
    [][ (last'.op = "update_status" /\ ~can_connect)
        => /\ unit_status' = "maintenance"
           /\ \A c \in Categories : /\ last'.fetched[c] = NotFetched
                                    /\ Mat(c)' = Mat(c)
           /\ stored' = stored
           /\ bucket' = bucket
           /\ NoWriteCalls(last')
           /\ last'.fanout = 0
           /\ ~last'.err
      ]_vars

\* C31 witness: a leader with an active relation has handled update-status
\* with the container not connectable.
C31_Witness ==
    /\ last.op = "update_status"
    /\ ~can_connect
    /\ leader
    /\ relations # {}
    /\ unit_status = "maintenance"

\* The events _configure_ingress observes.
ConfigureIngressOps == {"ingress_relation_joined", "leader_elected", "config_changed"}

\* C32: the ingress handler does nothing when it must not act.  Handled by a
\* unit that is not the leader, or by the leader while there is no ingress
\* relation, _configure_ingress updates no layer, restarts nothing, submits
\* nothing to Traefik and leaves the unit status, the plan and the ingress
\* bucket as they were.
C32_IngressNoAction ==
    [][ (last'.op \in ConfigureIngressOps /\ (~leader' \/ ~workload'.ingress))
        => /\ last'.calls = <<>>
           /\ unit_status' = unit_status
           /\ workload'.plan = workload.plan
           /\ workload'.running = workload.running
           /\ workload'.config = workload.config
      ]_vars

\* C32 witness: a unit that is not the leader has handled config-changed
\* while the ingress relation exists and the container is connectable.
C32_Witness ==
    /\ last.op = "config_changed"
    /\ ~leader
    /\ workload.ingress
    /\ can_connect
    /\ last.calls = <<>>

\* C33: a failed admin creation is retried by the next action.  Run with the
\* container connectable and no password stored, get-admin-password runs the
\* create-super-user script once with a newly generated password; if the
\* script fails nothing is stored and the action completes reporting an empty
\* password (so the next action runs the script again); the stored password
\* changes only to the password the script has just succeeded with.
C33_AdminCreationRetried ==
    [][ /\ ( /\ last'.op = "get_admin_password"
             /\ can_connect
             /\ stored.admin_password = "" )
           => /\ Count(last', "create_super_user.bash") = 1
              /\ last'.super_user.password \in Passwords
              /\ stored'.admin_password =
                     (IF last'.super_user.outcome = ScriptOk
                      THEN last'.super_user.password ELSE "")
              /\ last'.result = [status |-> "ok", password |-> stored'.admin_password]
        /\ stored'.admin_password # stored.admin_password
           => last'.super_user = [password |-> stored'.admin_password, outcome |-> ScriptOk]
      ]_vars

\* C33 witness: an action whose script failed completed with an empty
\* password and stored nothing.
C33_Witness ==
    /\ last.op = "get_admin_password"
    /\ can_connect
    /\ last.super_user.outcome \in {"ExecError", "ChangeError"}
    /\ last.result = [status |-> "ok", password |-> ""]
    /\ stored.admin_password = ""

\* C34: get-admin-password needs a connectable container.  Run with the
\* container not connectable the action fails, sets no results, runs no
\* script and leaves the stored admin password as it was.
C34_ActionNeedsContainer ==
    [][ (last'.op = "get_admin_password" /\ ~can_connect)
        => /\ last'.result = [status |-> "failed", password |-> ""]
           /\ last'.calls = <<>>
           /\ last'.super_user = NoSuperUser
           /\ stored' = stored
      ]_vars

\* C34 witness: the action has failed on a unit with no password stored and
\* the container not connectable.
C34_Witness ==
    /\ last.op = "get_admin_password"
    /\ ~can_connect
    /\ last.result.status = "failed"
    /\ stored.admin_password = ""

\* The events on which the blackbox provider runs set_probes_spec.
SetProbesOps == {"relation_joined", "refresh"}

\* C35: blackbox probes publication.  Each time set_probes_spec runs on the
\* leader, the bucket of every active blackbox-probes relation holds
\* scrape_metadata, scrape_probes and scrape_modules with the provider's
\* current values; run again on the same relations, with probes and modules
\* as they were, it leaves every bucket as it was.
C35_ProbesPublication ==
    [][ (provider = "blackbox" /\ last'.op \in SetProbesOps /\ leader')
        => /\ \A r \in relations' :
                  /\ bucket'[r].scrape_metadata = json_dumps(_scrape_metadata)
                  /\ bucket'[r].scrape_probes = json_dumps(blackbox'.probes)
                  /\ bucket'[r].scrape_modules = json_dumps(blackbox'.modules)
           /\ ( /\ last.op \in SetProbesOps
                /\ leader
                /\ relations' = relations
                /\ blackbox' = blackbox )
              => bucket' = bucket
      ]_vars

\* C35 witness: the leader of a charm that passed probes and modules has run
\* set_probes_spec on a refresh event with relations active, and wrote the
\* three keys of each.
C35_Witness ==
    /\ provider = "blackbox"
    /\ last.op = "refresh"
    /\ leader
    /\ relations # {}
    /\ blackbox.probes # <<>>
    /\ blackbox.modules # <<>>
    /\ \A r \in relations : /\ last.write_calls[r] = 3
                            /\ bucket[r].scrape_modules = json_dumps(blackbox.modules)

\* The module names a job refers to in its params.
Refs(job) ==
    LET v == job.params.module
    IN (IF v[1] = "list" THEN {v[2][k] : k \in DOMAIN v[2]}
        ELSE IF v[1] = "str" THEN {v[2]}
        ELSE {})
       \cup {ParamModules(job.params.params)[k] :
                k \in DOMAIN ParamModules(job.params.params)}

\* The key under which the module given as name is published.
PublishedKey(name) ==
    blackbox.modules[CHOOSE j \in DOMAIN blackbox.given.modules :
                         blackbox.given.modules[j][1] = name][1]

\* C37: consistent module prefixing.  After the provider is constructed, for
\* every probe and every module name it was given with in its params that is
\* defined in the supplied modules, the published probe names, instead of it,
\* the key under which that module is published in scrape_modules.
C37_ConsistentModulePrefixing ==
    provider = "blackbox"
    => \A i \in DOMAIN blackbox.given.probes :
           \A name \in Refs(blackbox.given.probes[i]) \cap Keys(blackbox.given.modules) :
               /\ PublishedKey(name) \in Keys(blackbox.modules)
               /\ PublishedKey(name) \in Refs(blackbox.probes[i])
               /\ name \notin Refs(blackbox.probes[i])

(***************************************************************************)
(* BlackboxProbesRequirer (src/lib/charms/blackbox_k8s): the requires side *)
(* of blackbox-probes, related to several probes providers.                *)
(***************************************************************************)
\* json.loads of a string that json.dumps produced.
json_loads(str) == str[2]

\* relation.data[relation.app].get(key, default), then json.loads; the
\* defaults "[]" and "{}" both load as the empty collection.
LoadOr(data, key) == IF data[key] = Absent THEN <<>> ELSE json_loads(data[key])

\* What a related provider application may have published.
M3 == << <<http_2xx, "http-30s">>, <<icmp, "icmp">> >>
Publications ==
    { [probes |-> <<>>, modules |-> <<>>],
      [probes |-> <<J1>>, modules |-> M1],
      [probes |-> <<J3>>, modules |-> M2],
      [probes |-> <<J1, J3>>, modules |-> M3] }

\* Variant: an entry already collected is kept when a later relation has
\* an entry of the same name.
dict_update_keep_first(d, other) ==
    d \o SelectSeq(other, LAMBDA p : p[1] \notin Keys(d))

\* d.update(other): the value of a key d has is replaced in place, the other
\* pairs are added at the end.
DictUpdate(d, other) ==
    [i \in DOMAIN d |-> IF d[i][1] \in Keys(other)
                        THEN <<d[i][1], AsDict(other)[d[i][1]]>>
                        ELSE d[i]]
    \o SelectSeq(other, LAMBDA p : p[1] \notin Keys(d))

\* The loop of probes(): scrape_probes.extend(...) for each relation in turn.
RECURSIVE ExtendProbes(_, _, _)
ExtendProbes(scrape_probes, data, rels) ==
    IF rels = <<>> THEN scrape_probes
    ELSE ExtendProbes(scrape_probes \o LoadOr(data[Head(rels)], "scrape_probes"),
                      data, Tail(rels))

\* The loop of modules(): blackbox_scrape_modules.update(...) for each relation.
RECURSIVE UpdateModules(_, _, _)
UpdateModules(blackbox_scrape_modules, data, rels) ==
    IF rels = <<>> THEN blackbox_scrape_modules
    ELSE UpdateModules(DictUpdate(blackbox_scrape_modules,
                                  LoadOr(data[Head(rels)], "scrape_modules")),
                       data, Tail(rels))

\* BlackboxProbesRequirer.probes
Requirer_probes(s, env) == ExtendProbes(<<>>, s.remote, SortedSeq(env.relations))

\* BlackboxProbesRequirer.modules
Requirer_modules(s, env) == UpdateModules(<<>>, s.remote, SortedSeq(env.relations))

\* blackbox-probes relation-created on the requires side: the provider has
\* written nothing yet; the requirer does not observe the event.
RequirerRelationCreated ==
    \E r \in Relations \ relations :
        /\ relations' = relations \cup {r}
        /\ Commit(Start("requirer_relation_created"))
        /\ UNCHANGED <<leader, can_connect>>

\* The provider of a relation publishes; relation-changed is handled by
\* _on_probes_provider_relation_changed, which emits targets_changed.
RequirerRelationChanged ==
    /\ \E r \in relations, pub \in Publications :
           Commit([Start("requirer_relation_changed") EXCEPT
                       !.remote[r]["scrape_metadata"] = json_dumps(_scrape_metadata),
                       !.remote[r]["scrape_probes"] = json_dumps(pub.probes),
                       !.remote[r]["scrape_modules"] = json_dumps(pub.modules),
                       !.log.emitted = @ + 1])
    /\ UNCHANGED <<leader, can_connect, relations>>

\* A unit of a provider departs: _on_probes_provider_relation_departed emits
\* targets_changed; the relation and what the provider published stay.
RequirerRelationDeparted ==
    /\ relations # {}
    /\ Commit([Start("requirer_relation_departed") EXCEPT !.log.emitted = @ + 1])
    /\ UNCHANGED <<leader, can_connect, relations>>

\* blackbox-probes relation-broken on the requires side: the relation is
\* gone; the requirer does not observe the event.
RequirerRelationBroken ==
    \E r \in relations :
        /\ relations' = relations \ {r}
        /\ Commit([Start("requirer_relation_broken") EXCEPT !.remote[r] = EmptyBucket])
        /\ UNCHANGED <<leader, can_connect>>

\* The charm asks the requirer for the probes and the modules.
Scrape ==
    /\ LET s == Start("scrape")
       IN Commit([s EXCEPT !.log.probes = Requirer_probes(s, Env),
                           !.log.modules = Requirer_modules(s, Env)])
    /\ UNCHANGED <<leader, can_connect, relations>>

NextRequirer ==
    \/ RequirerRelationCreated
    \/ RequirerRelationChanged
    \/ RequirerRelationDeparted
    \/ RequirerRelationBroken
    \/ Scrape

SpecRequirer == Init /\ [][NextRequirer]_vars

\* The probes and the modules a relation's provider has published.
ProbesOn(r) == LoadOr(remote[r], "scrape_probes")
ModulesOn(r) == LoadOr(remote[r], "scrape_modules")

\* The number of probes published on the active relations before r.
RECURSIVE Before(_, _)
Before(r, S) ==
    IF S = {} THEN 0
    ELSE LET q == CHOOSE q \in S : TRUE
         IN (IF q < r THEN Len(ProbesOn(q)) ELSE 0) + Before(r, S \ {q})

ModelError == [raises |-> TRUE, value |-> Absent]
PeerHolds(v) == [raises |-> FALSE, value |-> v]

AuthPeerIn == {ModelError, PeerHolds(Absent),
               PeerHolds(json_dumps(K1)), PeerHolds(json_dumps(K2))}

DevicesPeerIn == {ModelError, PeerHolds(Absent),
                  PeerHolds(json_dumps([ssh_keys |-> <<>>])),
                  PeerHolds(json_dumps([ssh_keys |-> DK1]))}

\* Variant: the ModelError of the bucket read is not caught.
consumer_relation_changed_uncaught(s, env, field, peer) ==
    LET s0 == [s EXCEPT !.log.peer = peer]
    IN IF ~env.leader \/ peer.raises THEN Raise(s0, "consumer")
       ELSE IF peer.value = Absent THEN s0
       ELSE IF s.consumer[field] # peer.value
            THEN [s0 EXCEPT !.consumer[field] = peer.value, !.log.emitted = @ + 1]
            ELSE s0

\* Variant: the value is stored and the event emitted without a comparison.
consumer_relation_changed_uncompared(s, env, field, peer) ==
    LET s0 == [s EXCEPT !.log.peer = peer]
    IN IF ~env.leader THEN Raise(s0, "consumer")
       ELSE IF peer.raises \/ peer.value = Absent THEN s0
       ELSE [s0 EXCEPT !.consumer[field] = peer.value, !.log.emitted = @ + 1]

\* The body the two consumers' _on_relation_changed share, on the stored
\* field and bucket key of the library.  databag is assigned only inside
\* "if is_leader()": on another unit the comparison reads an unbound local
\* and Python raises UnboundLocalError.
ConsumerOnRelationChanged(s, env, field, peer) ==
    LET s0 == [s EXCEPT !.log.peer = peer]
        databag == peer.value
        coerced_data == IF s.consumer[field] # <<>> THEN s.consumer[field] ELSE <<>>
    IN IF env.leader
       THEN IF peer.raises THEN s0
            ELSE IF databag = Absent THEN s0
            ELSE IF coerced_data # databag
                 THEN [s0 EXCEPT !.consumer[field] = databag, !.log.emitted = @ + 1]
                 ELSE s0
       ELSE Raise(s0, "consumer")

\* AuthDevicesKeysConsumer._on_relation_changed
AuthDevicesKeysConsumer_on_relation_changed(s, env, peer) ==
    ConsumerOnRelationChanged(s, env, "auth_devices_keys", peer)

\* DevicesKeysConsumer._on_relation_changed
DevicesKeysConsumer_on_relation_changed(s, env, peer) ==
    ConsumerOnRelationChanged(s, env, "devices_pub_keys", peer)

\* auth-devices-keys relation-changed on the requires side
AuthConsumerRelationChanged ==
    /\ \E peer \in AuthPeerIn :
           Commit(AuthDevicesKeysConsumer_on_relation_changed(
                      Start("auth_consumer_relation_changed"), Env, peer))
    /\ UNCHANGED <<leader, can_connect, relations>>

\* devices-keys relation-changed on the requires side
DevicesConsumerRelationChanged ==
    /\ \E peer \in DevicesPeerIn :
           Commit(DevicesKeysConsumer_on_relation_changed(
                      Start("devices_consumer_relation_changed"), Env, peer))
    /\ UNCHANGED <<leader, can_connect, relations>>

\* relation-broken on the requires side: _on_relation_broken does nothing.
ConsumerRelationBroken ==
    /\ Commit(Start("consumer_relation_broken"))
    /\ UNCHANGED <<leader, can_connect, relations>>

\* The unit becomes the leader; the consumers do not observe leader-elected.
ConsumerLeaderElected ==
    /\ ~leader
    /\ leader' = TRUE
    /\ Commit(Start("leader_elected"))
    /\ UNCHANGED <<can_connect, relations>>

NextConsumer ==
    \/ AuthConsumerRelationChanged
    \/ DevicesConsumerRelationChanged
    \/ ConsumerRelationBroken
    \/ ConsumerLeaderElected
    \/ LeaderLost

SpecConsumer == Init /\ [][NextConsumer]_vars

\* The stored field a consumer's relation-changed handler works on.
ConsumerChangedOps == {"auth_consumer_relation_changed", "devices_consumer_relation_changed"}

ConsumerField(op) ==
    IF op = "auth_consumer_relation_changed" THEN "auth_devices_keys"
                                             ELSE "devices_pub_keys"

\* C21: relation access race on the consumer side.  On a leader, a
\* relation-changed handler whose read of the peer's application bucket
\* raises the access error returns without raising, leaves the stored key
\* data of both consumers as it was and emits no changed event.
C21_AccessRace ==
    [][ (last'.op \in ConsumerChangedOps /\ leader /\ last'.peer.raises)
        => /\ ~last'.err
           /\ consumer' = consumer
           /\ last'.emitted = 0
      ]_vars

\* C21 witness: a leader that holds key data from an earlier event has
\* handled a relation-changed whose bucket read raised.
C21_Witness ==
    /\ last.op \in ConsumerChangedOps
    /\ leader
    /\ last.peer.raises
    /\ consumer[ConsumerField(last.op)] # <<>>

\* C29: consumer change detection.  On a leader, a relation-changed whose
\* peer bucket holds a non-empty value stores it and emits exactly one changed
\* event if it differs from the stored value and does neither if it is equal;
\* an absent or empty value changes nothing and emits nothing; the same data
\* delivered twice in a row emits at most one event over the two deliveries.
C29_ConsumerChangeDetection ==
    [][ (last'.op \in ConsumerChangedOps /\ leader /\ ~last'.peer.raises)
        => LET f == ConsumerField(last'.op)
               v == last'.peer.value
           IN /\ ~last'.err
              /\ IF v # Absent /\ v # consumer[f]
                 THEN /\ consumer' = [consumer EXCEPT ![f] = v]
                      /\ last'.emitted = 1
                 ELSE /\ consumer' = consumer
                      /\ last'.emitted = 0
              /\ (last.op = last'.op /\ last.peer = last'.peer)
                 => last.emitted + last'.emitted <= 1
      ]_vars

\* C29 witness: a leader has handled the delivery of a non-empty value that
\* an earlier delivery had stored, and emitted nothing.
C29_Witness ==
    /\ last.op \in ConsumerChangedOps
    /\ leader
    /\ ~last.peer.raises
    /\ last.peer.value # Absent
    /\ consumer[ConsumerField(last.op)] = last.peer.value
    /\ last.emitted = 0

\* C30: consumer on a unit that is not the leader.  Its relation-changed
\* handler completes without an error, leaves the stored key data as it was
\* and emits no changed event.
C30_NonLeaderConsumer ==
    [][ (last'.op \in ConsumerChangedOps /\ ~leader)
        => /\ ~last'.err
           /\ consumer' = consumer
           /\ last'.emitted = 0
      ]_vars

====
